---- MODULE Spec2Model ----
(***************************************************************************)
(* Model of the supply equilibrium widget (EquilibriumWidget.tsx) and of   *)
(* the alarm dialog of the top bar (TopBar).                               *)
(*                                                                         *)
(* Numbers.  The program computes on IEEE doubles.  The model represents a *)
(* double by a record [nan, v]: either NaN or a fixed-point amount v.  An  *)
(* ETH amount is counted in units of GweiPerUnit Gwei, a fraction (the     *)
(* burn fraction, the issuance fraction) in units of 1/FracDen, and every  *)
(* operation rounds its exact result down to that grid, as a double rounds *)
(* to its own.  TLC integers are 32 bits wide, so the amounts of the model *)
(* are small; the structure of the computation (the order of operations,   *)
(* the floor of the square root, the truncation) is that of the code.      *)
(*                                                                         *)
(* Time.  A timestamp is counted in days since 1970-01-01 (UTC): the       *)
(* series of the data provider are daily, and date-fns' fromUnixTime,      *)
(* getMonth, addYears and getUnixTime are modelled on the civil calendar.  *)
(***************************************************************************)
EXTENDS Integers, Sequences, FiniteSets, TLC

VARIABLES
    \* EquilibriumWidget
    burnRateAll,                  \* useGroupedAnalysis1()?.burnRates.burnRateAll
    supplyProjectionInputs,       \* useSupplyProjectionInputs()
    initialEquilibriumInputsSet,  \* useState(false)
    stakedSupply,                 \* useState<number>(0)
    nonStakedSupplyBurnFraction,  \* useState<number>(0)
    equilibriums,                 \* the useMemo result of the latest render
    effectPending,                \* the useEffect is scheduled and has not run
    \* getIssuance applied to two staked supplies
    stakeA, stakeB, issuanceA, issuanceB,
    \* TopBar
    mounted,                      \* a TopBar instance is mounted
    showAlarmDialog,              \* useState(false)
    gasAlarmActive,               \* useLocalStorage("gas-alarm-enabled", false)
    ethAlarmActive,               \* useLocalStorage("eth-alarm-enabled", false)
    localStorage,                 \* the browser's key/value store
    listeners,                    \* the document's click listeners of the instance
    groupedAnalysis1,             \* the TopBar's prop: a data version, 0 = undefined
    lastEvent                     \* the event the latest step handled

widgetVars == <<burnRateAll, supplyProjectionInputs, initialEquilibriumInputsSet,
                stakedSupply, nonStakedSupplyBurnFraction, equilibriums, effectPending>>
issuanceVars == <<stakeA, stakeB, issuanceA, issuanceB>>
topBarVars == <<mounted, showAlarmDialog, gasAlarmActive, ethAlarmActive,
                localStorage, listeners, groupedAnalysis1>>
vars == <<widgetVars, issuanceVars, topBarVars, lastEvent>>

-----------------------------------------------------------------------------
(* Bounds of the model *)

GweiPerUnit == 100       \* the amount grid: one unit is GweiPerUnit Gwei
MaxSeriesDays == 3       \* the longest supplyByDay series of the data
MaxIssuanceStake == 130  \* the largest staked supply getIssuance is applied to
MaxDataVersion == 2      \* the data refreshes a TopBar instance sees

FracDen == 1000          \* the fraction grid, the step of the burn slider

-----------------------------------------------------------------------------
(* Numbers *)

Undefined == [tag |-> "undefined"]

NaN == [nan |-> TRUE, v |-> 0]
Num(n) == [nan |-> FALSE, v |-> n]

Add(x, y) == IF x.nan \/ y.nan THEN NaN ELSE Num(x.v + y.v)
Sub(x, y) == IF x.nan \/ y.nan THEN NaN ELSE Num(x.v - y.v)

\* floor(a * b / c) for b >= 0, c > 0, without the product a * b.
MulDiv(a, b, c) == (a \div c) * b + ((a % c) * b) \div c

\* fraction * amount: the fraction f counts 1/FracDen.
MulFrac(f, x) == IF f.nan \/ x.nan THEN NaN ELSE Num(MulDiv(x.v, f.v, FracDen))

\* amount / amount, a fraction; 0/0 is NaN (x/0 for x # 0 is not drawn).
DivFrac(x, y) ==
    IF x.nan \/ y.nan \/ y.v = 0 THEN NaN ELSE Num(MulDiv(x.v, FracDen, y.v))

RECURSIVE SqrtSearch(_, _, _)
SqrtSearch(n, lo, hi) ==
    IF lo = hi THEN lo
    ELSE LET mid == (lo + hi + 1) \div 2
         IN  IF mid * mid <= n THEN SqrtSearch(n, mid, hi)
                               ELSE SqrtSearch(n, lo, mid - 1)

\* Math.floor(Math.sqrt(n)) for an integer n >= 0.
FloorSqrt(n) == SqrtSearch(n, 0, IF n < 46340 THEN n ELSE 46340)

-----------------------------------------------------------------------------
(* The civil calendar: date-fns on whole days *)

\* DateFns.fromUnixTime: the civil date [y, m, d] of a day number.
fromUnixTime(t) ==
    LET z   == t + 719468
        era == z \div 146097
        doe == z - era * 146097
        yoe == (doe - doe \div 1460 + doe \div 36524 - doe \div 146096) \div 365
        doy == doe - (365 * yoe + yoe \div 4 - yoe \div 100)
        mp  == (5 * doy + 2) \div 153
        mm  == IF mp < 10 THEN mp + 3 ELSE mp - 9
    IN  [y |-> yoe + era * 400 + (IF mm <= 2 THEN 1 ELSE 0),
         m |-> mm,
         d |-> doy - (153 * mp + 2) \div 5 + 1]

\* DateFns.getUnixTime: the day number of a civil date.
getUnixTime(date) ==
    LET yy  == IF date.m <= 2 THEN date.y - 1 ELSE date.y
        era == yy \div 400
        yoe == yy - era * 400
        mp  == IF date.m > 2 THEN date.m - 3 ELSE date.m + 9
        doy == (153 * mp + 2) \div 5 + date.d - 1
        doe == yoe * 365 + yoe \div 4 - yoe \div 100 + doy
    IN  era * 146097 + doe - 719468

\* DateFns.getMonth
getMonth(date) == date.m

isLeapYear(y) == (y % 4 = 0 /\ y % 100 # 0) \/ y % 400 = 0

getDaysInMonth(y, m) ==
    IF m = 2 THEN (IF isLeapYear(y) THEN 29 ELSE 28)
    ELSE IF m \in {4, 6, 9, 11} THEN 30 ELSE 31

\* DateFns.addYears(date, 1): the same month and day of the next year, the
\* day clamped to the end of the month (29 February -> 28 February).
addYears(date) ==
    LET dim == getDaysInMonth(date.y + 1, date.m)
    IN  [y |-> date.y + 1, m |-> date.m, d |-> IF date.d > dim THEN dim ELSE date.d]

-----------------------------------------------------------------------------
(* EquilibriumWidget.tsx: the pure functions *)

SECONDS_PER_SLOT == 12
SLOTS_PER_EPOCH == 32
EPOCHS_PER_DAY == ((24 * 60 * 60) \div SLOTS_PER_EPOCH) \div SECONDS_PER_SLOT
BASE_REWARD_FACTOR == 64
ProjectionYears == 200

Last(seq) == seq[Len(seq)]

\* burnAsFraction.  burnRateAll is counted in amount units per year: the
\* factor YEAR_IN_MINUTES / WEI_PER_ETH is the change of unit from wei per
\* minute.
burnAsFraction(nonStakingSupply, burnPerYear) == DivFrac(burnPerYear, nonStakingSupply)

getStakingSupply(inputs) == Num(Last(inputs.inBeaconValidatorsByDay).v)

getNonStakingSupply(inputs) ==
    LET supply == Num(Last(inputs.supplyByDay).v)
        staked == Num(Last(inputs.inBeaconValidatorsByDay).v)
    IN  Sub(supply, staked)

\* Math.round(Math.sqrt(.)) where the code takes Math.floor.
roundedSquareRoot(balance) ==
    LET k == FloorSqrt(balance)
    IN  IF balance > k * k + k THEN k + 1 ELSE k

\* Math.floor(Math.sqrt(max_balance_at_stake))
integerSquareRoot(balance) == FloorSqrt(balance)

\* max_balance_at_stake, in Gwei: effective_balance_sum * GWEI_PER_ETH,
\* divided by GWEI_PER_ETH and 32 (active_validators) and multiplied by
\* MAX_EFFECTIVE_BALANCE = 32 * GWEI_PER_ETH.
maxBalanceAtStake(units) == units * GweiPerUnit

\* max_issuance_per_epoch, in Gwei; 0 / 0 is NaN.
maxIssuancePerEpoch(balance) ==
    IF integerSquareRoot(balance) = 0 THEN NaN
    ELSE Num((BASE_REWARD_FACTOR * balance) \div integerSquareRoot(balance))

\* getIssuance: the yearly issuance of a staked supply, both in amount units.
\* EPOCHS_PER_YEAR = 365.25 * EPOCHS_PER_DAY = 1461 * EPOCHS_PER_DAY / 4.
getIssuance(effective_balance_sum) ==
    IF effective_balance_sum.nan THEN NaN
    ELSE LET perEpoch == maxIssuancePerEpoch(maxBalanceAtStake(effective_balance_sum.v))
         IN  IF perEpoch.nan THEN NaN
             ELSE Num(MulDiv(perEpoch.v, 1461 * EPOCHS_PER_DAY, 4 * GweiPerUnit))

getBurn(yearlyNonStakedBurnFraction, nonStakedSupply) ==
    MulFrac(yearlyNonStakedBurnFraction, nonStakedSupply)

-----------------------------------------------------------------------------
(* EquilibriumWidget.tsx: the two useMemo computations *)

Point(t, v) == [t |-> t, v |-> v]

RECURSIVE reduceByMonth(_, _, _)
reduceByMonth(supplyByDay, i, list) ==
    IF i > Len(supplyByDay) THEN list
    ELSE LET point == supplyByDay[i]
         IN  IF list = <<>>
             THEN reduceByMonth(supplyByDay, i + 1, <<Point(point.t, Num(point.v))>>)
             ELSE IF getMonth(fromUnixTime(Last(list).t)) # getMonth(fromUnixTime(point.t))
             THEN reduceByMonth(supplyByDay, i + 1,
                                Append(list, Point(point.t, Num(point.v))))
             ELSE reduceByMonth(supplyByDay, i + 1, list)

historicSupplyByMonth(inputs) ==
    IF inputs = Undefined THEN Undefined
    ELSE reduceByMonth(inputs.supplyByDay, 1, <<>>)

\* t + 365 where the code adds a calendar year.
nextYearIn365Days(t) == t + 365

\* DateFns.getUnixTime(DateFns.addYears(DateFns.fromUnixTime(supply[0]), 1))
nextYear(t) == getUnixTime(addYears(fromUnixTime(t)))

\* The burn of every year taken from the non-staked supply of the seed.
nextNonStakedStale(supply, staked, nonStaked) == nonStaked

\* nonStaked = supply[1] - staked, at the end of the loop body
nextNonStaked(supply, staked, nonStaked) == Sub(supply.v, staked)

\* The body of the loop: one year from the loop's state [series, supply,
\* nonStaked].
projectYear(loop, staked, issuance, burnFraction) ==
    LET burn == getBurn(burnFraction, loop.nonStaked)
        next == Point(nextYear(loop.supply.t),
                      Sub(Add(loop.supply.v, issuance), burn))
    IN  [series    |-> Append(loop.series, next),
         supply    |-> next,
         nonStaked |-> nextNonStaked(next, staked, loop.nonStaked)]

\* for (let i = 0; i < 200; i++): `years` runs of the body, one after the
\* other (split in halves, each half evaluated before the next starts).
RECURSIVE projectYears(_, _, _, _, _)
projectYears(loop, staked, issuance, burnFraction, years) ==
    IF years <= 0 THEN loop
    ELSE IF years = 1 THEN projectYear(loop, staked, issuance, burnFraction)
    ELSE CHOOSE end \in
             {projectYears(half, staked, issuance, burnFraction, years - years \div 2) :
                 half \in {projectYears(loop, staked, issuance, burnFraction,
                                        years \div 2)}} : TRUE

\* let supply = NEA.last(supplyEquilibriumSeries)
projectionSeed(inputs, historic) == Last(historic)

\* The equilibriums of a render (supplyEquilibriumMap, the series as a map
\* from timestamp to value, is left out: no other value depends on it).
\* historicSupplyByMonth is undefined exactly when the inputs are.
computeEquilibriums(staked, burnFraction, inputs) ==
    IF staked = Undefined \/ burnFraction = Undefined \/ inputs = Undefined
    THEN Undefined
    ELSE LET historic == historicSupplyByMonth(inputs)
             seed     == projectionSeed(inputs, historic)
             issuance == getIssuance(staked)
             end      == projectYears([series    |-> historic,
                                       supply    |-> seed,
                                       nonStaked |-> Sub(seed.v, staked)],
                                      staked, issuance, burnFraction, ProjectionYears)
         IN  [cashFlowsEquilibrium       |-> getIssuance(staked),
              nonStakedSupplyEquilibrium |-> end.nonStaked,
              supplyEquilibrium          |-> end.supply.v,
              supplyEquilibriumSeries    |-> end.series,
              yearlyIssuanceFraction     |-> DivFrac(getIssuance(staked), staked)]

-----------------------------------------------------------------------------
(* The data the providers deliver and the values the sliders give *)

\* 2020-02-28 and 2020-02-29: a series from them crosses into March, and a
\* projection seeded on 29 February meets the clamp of addYears.
SeriesStartDays == {18320, 18321}
DataStakes == {10}
SupplyBase == 300
BurnRates == {0, 30}
StakedSliderValues == {30}
BurnSliderValues == {0, 50}

\* n consecutive days from `start`: the supply grows by one unit a day.
makeInputs(start, n, stake) ==
    [supplyByDay |-> [i \in 1..n |-> [t |-> start + i - 1, v |-> SupplyBase + i]],
     inBeaconValidatorsByDay |-> [i \in 1..n |-> [t |-> start + i - 1, v |-> stake + i]]]

SupplyInputsSet ==
    {makeInputs(start, n, stake) :
        start \in SeriesStartDays, n \in 1..MaxSeriesDays, stake \in DataStakes}

\* The keys of the browser's store the program uses; getItem gives null for
\* a key that was never written.
StorageKeys == {"gas-alarm-enabled", "eth-alarm-enabled"}

noIssuance == /\ stakeA = 0 /\ stakeB = 0
              /\ issuanceA = Undefined /\ issuanceB = Undefined
noTopBar == /\ mounted = FALSE /\ showAlarmDialog = FALSE
            /\ gasAlarmActive = FALSE /\ ethAlarmActive = FALSE
            /\ localStorage = [key \in StorageKeys |-> "null"]
            /\ listeners = <<>> /\ groupedAnalysis1 = 0
noWidget == /\ burnRateAll = Undefined /\ supplyProjectionInputs = Undefined
            /\ initialEquilibriumInputsSet = FALSE
            /\ stakedSupply = Num(0) /\ nonStakedSupplyBurnFraction = Num(0)
            /\ equilibriums = Undefined /\ effectPending = FALSE

-----------------------------------------------------------------------------
(* EquilibriumWidget: the component.  Every step ends with the render its  *)
(* state change causes; the effect runs after the render that scheduled it *)
(* and before the next event.                                              *)

\* The state after the mount: the first render, and the effect's first run,
\* which returns early.
Init ==
    /\ burnRateAll = Undefined
    /\ supplyProjectionInputs = Undefined
    /\ initialEquilibriumInputsSet = FALSE
    /\ stakedSupply = Num(0)
    /\ nonStakedSupplyBurnFraction = Num(0)
    /\ equilibriums = computeEquilibriums(Num(0), Num(0), Undefined)
    /\ effectPending = FALSE
    /\ lastEvent = "mount"
    /\ noIssuance /\ noTopBar

\* useGroupedAnalysis1 delivers the burn rate, or a refreshed one.  The burn
\* rate is no dependency of either useMemo: the render keeps equilibriums.
LoadBurnRate ==
    /\ ~effectPending
    /\ \E rate \in BurnRates :
        /\ Num(rate) # burnRateAll
        /\ burnRateAll' = Num(rate)
    /\ effectPending' = TRUE
    /\ lastEvent' = "data"
    /\ UNCHANGED <<supplyProjectionInputs, initialEquilibriumInputsSet, stakedSupply,
                   nonStakedSupplyBurnFraction, equilibriums, issuanceVars, topBarVars>>

\* useSupplyProjectionInputs delivers the inputs, or refreshed ones.
LoadSupplyProjectionInputs ==
    /\ ~effectPending
    /\ \E inputs \in SupplyInputsSet :
        /\ inputs # supplyProjectionInputs
        /\ supplyProjectionInputs' = inputs
    /\ effectPending' = TRUE
    /\ equilibriums' = computeEquilibriums(stakedSupply, nonStakedSupplyBurnFraction,
                                           supplyProjectionInputs')
    /\ lastEvent' = "data"
    /\ UNCHANGED <<burnRateAll, initialEquilibriumInputsSet, stakedSupply,
                   nonStakedSupplyBurnFraction, issuanceVars, topBarVars>>

\* The effect that forgets its initialEquilibriumInputsSet guard.
effectReturnsEarlyUnguarded ==
    burnRateAll = Undefined \/ supplyProjectionInputs = Undefined

\* The early return of the effect.
effectReturnsEarly ==
    \/ burnRateAll = Undefined
    \/ supplyProjectionInputs = Undefined
    \/ initialEquilibriumInputsSet

\* The useEffect of [burnRateAll, initialEquilibriumInputsSet,
\* supplyProjectionInputs], and the render its setState calls cause; that
\* render schedules the effect again when initialEquilibriumInputsSet, the
\* one dependency the effect sets, has changed.
RunEffect ==
    /\ effectPending
    /\ lastEvent' = "effect"
    /\ IF effectReturnsEarly
       THEN /\ effectPending' = FALSE
            /\ UNCHANGED <<initialEquilibriumInputsSet, stakedSupply,
                           nonStakedSupplyBurnFraction, equilibriums>>
       ELSE /\ initialEquilibriumInputsSet' = TRUE
            /\ stakedSupply' = getStakingSupply(supplyProjectionInputs)
            /\ nonStakedSupplyBurnFraction' =
                   burnAsFraction(getNonStakingSupply(supplyProjectionInputs), burnRateAll)
            /\ equilibriums' = computeEquilibriums(stakedSupply',
                                                   nonStakedSupplyBurnFraction',
                                                   supplyProjectionInputs)
            /\ effectPending' = (initialEquilibriumInputsSet' # initialEquilibriumInputsSet)
    /\ UNCHANGED <<burnRateAll, supplyProjectionInputs, issuanceVars, topBarVars>>

\* The staking slider: onChange={(e) => setStakedSupply(Number(e.target.value))}
ChangeStakedSupply ==
    /\ ~effectPending
    /\ \E value \in StakedSliderValues :
        /\ Num(value) # stakedSupply
        /\ stakedSupply' = Num(value)
    /\ equilibriums' = computeEquilibriums(stakedSupply', nonStakedSupplyBurnFraction,
                                           supplyProjectionInputs)
    /\ lastEvent' = "slider"
    /\ UNCHANGED <<burnRateAll, supplyProjectionInputs, initialEquilibriumInputsSet,
                   nonStakedSupplyBurnFraction, effectPending, issuanceVars, topBarVars>>

\* The burn slider: onChange sets nonStakedSupplyBurnFraction.
ChangeBurnFraction ==
    /\ ~effectPending
    /\ \E value \in BurnSliderValues :
        /\ Num(value) # nonStakedSupplyBurnFraction
        /\ nonStakedSupplyBurnFraction' = Num(value)
    /\ equilibriums' = computeEquilibriums(stakedSupply, nonStakedSupplyBurnFraction',
                                           supplyProjectionInputs)
    /\ lastEvent' = "slider"
    /\ UNCHANGED <<burnRateAll, supplyProjectionInputs, initialEquilibriumInputsSet,
                   stakedSupply, effectPending, issuanceVars, topBarVars>>

Next ==
    \/ LoadBurnRate
    \/ LoadSupplyProjectionInputs
    \/ RunEffect
    \/ ChangeStakedSupply
    \/ ChangeBurnFraction

Spec == Init /\ [][Next]_vars

-----------------------------------------------------------------------------
(* Claims about the equilibrium widget, checked under Spec *)

projected == equilibriums # Undefined
series == equilibriums.supplyEquilibriumSeries
\* The index of the seed point: the projected years follow it.
seedIndex == Len(series) - ProjectionYears
projectedIndices == (seedIndex + 1)..Len(series)

\* The months the daily series supplyByDay touches.
monthsOf(supplyByDay) ==
    1 + Cardinality({i \in 2..Len(supplyByDay) :
                        fromUnixTime(supplyByDay[i].t).m
                            # fromUnixTime(supplyByDay[i - 1].t).m})

\* t2 is the day one calendar year after t1, 29 February going to 28 February.
oneCalendarYearApart(t1, t2) ==
    LET a == fromUnixTime(t1)
        b == fromUnixTime(t2)
    IN  /\ b.y = a.y + 1
        /\ b.m = a.m
        /\ \/ b.d = a.d
           \/ a.m = 2 /\ a.d = 29 /\ b.d = 28
        /\ t2 - t1 \in {365, 366}

\* C1 as stated: every projection has exactly 201 points, seed plus 200
\* years, with strictly increasing timestamps one year apart.
C1_Exactly201Points ==
    projected =>
        /\ Len(series) = 201
        /\ \A i \in 2..Len(series) :
               /\ series[i].t > series[i - 1].t
               /\ series[i].t - series[i - 1].t \in {365, 366}

\* C1 amended: the series is the monthly historic points followed by the 200
\* projected years; the seed (the last historic point) and the 200 projected
\* points have strictly increasing timestamps, each one calendar year after
\* the one before it.
C1_HistoricPlus200Years ==
    projected =>
        /\ Len(series) = monthsOf(supplyProjectionInputs.supplyByDay) + 200
        /\ \A i \in (Len(series) - 199)..Len(series) :
               /\ series[i].t > series[i - 1].t
               /\ oneCalendarYearApart(series[i - 1].t, series[i].t)

\* A projection over a history of two months, a leap year among its years.
C1_Witness ==
    /\ projected
    /\ Len(series) = 202
    /\ \E i \in projectedIndices : series[i].t - series[i - 1].t = 366
    /\ \E i \in projectedIndices : series[i].t - series[i - 1].t = 365

\* C6 as stated: while the burn rate or the supply-projection inputs are
\* undefined no projection is rendered, and a rendered projection is computed
\* from an initialised staked supply, never from the initial 0.
C6_LoadingUntilInitialised ==
    /\ (burnRateAll = Undefined \/ supplyProjectionInputs = Undefined) => ~projected
    /\ projected =>
           /\ initialEquilibriumInputsSet
           /\ stakedSupply # Num(0)
           /\ ~equilibriums.cashFlowsEquilibrium.nan

\* C7: every projected year follows supply[n] = supply[n-1] + I - f *
\* (supply[n-1] - S) with I = getIssuance(S); the supply equilibrium is
\* supply[200], the non-staked equilibrium supply[200] - S, and the yearly
\* issuance fraction I / S.
C7_YearlyRecurrence ==
    projected =>
        LET S == stakedSupply
            f == nonStakedSupplyBurnFraction
            I == getIssuance(S)
        IN  /\ \A i \in projectedIndices :
                   series[i].v =
                       Sub(Add(series[i - 1].v, I), MulFrac(f, Sub(series[i - 1].v, S)))
            /\ equilibriums.supplyEquilibrium = Last(series).v
            /\ equilibriums.nonStakedSupplyEquilibrium = Sub(Last(series).v, S)
            /\ equilibriums.yearlyIssuanceFraction = DivFrac(I, S)

\* A projection from initialised inputs, with a burn, that moves the supply.
C7_Witness ==
    /\ projected
    /\ initialEquilibriumInputsSet
    /\ nonStakedSupplyBurnFraction.v > 0
    /\ ~Last(series).v.nan
    /\ Last(series).v.v > series[seedIndex].v.v
    /\ series[seedIndex + 2].v.v - series[seedIndex + 1].v.v
           # series[seedIndex + 1].v.v - series[seedIndex].v.v

\* C8 as stated: the seed of the projection is the last element of
\* supplyByDay, its timestamp and its value.
C8_SeedIsLatestSupply ==
    projected =>
        series[seedIndex] =
            Point(Last(supplyProjectionInputs.supplyByDay).t,
                  Num(Last(supplyProjectionInputs.supplyByDay).v))

\* C9: the flag initialEquilibriumInputsSet is never reset and is set only
\* when the burn rate and the inputs are both defined; once it is set, the
\* staked supply and the burn fraction change only through the sliders.
C9_InitialisedOnce ==
    [][/\ initialEquilibriumInputsSet => initialEquilibriumInputsSet'
       /\ (~initialEquilibriumInputsSet /\ initialEquilibriumInputsSet') =>
              (burnRateAll # Undefined /\ supplyProjectionInputs # Undefined)
       /\ (/\ initialEquilibriumInputsSet
           /\ <<stakedSupply, nonStakedSupplyBurnFraction>>'
                  # <<stakedSupply, nonStakedSupplyBurnFraction>>) =>
              lastEvent' = "slider"]_vars

\* The effect has run after a refresh of the data and has left a staked
\* supply that differs from the refreshed data's.
C9_Witness ==
    /\ initialEquilibriumInputsSet
    /\ lastEvent = "effect"
    /\ ~effectPending
    /\ stakedSupply # getStakingSupply(supplyProjectionInputs)
    /\ nonStakedSupplyBurnFraction
           # burnAsFraction(getNonStakingSupply(supplyProjectionInputs), burnRateAll)

-----------------------------------------------------------------------------
(* getIssuance applied to two staked supplies stakeA < stakeB *)

InitIssuance ==
    /\ stakeA \in 1..MaxIssuanceStake
    /\ stakeB \in 1..MaxIssuanceStake
    /\ stakeA < stakeB
    /\ issuanceA = Undefined
    /\ issuanceB = Undefined
    /\ lastEvent = "init"
    /\ noWidget /\ noTopBar

ApplyGetIssuance ==
    /\ issuanceA = Undefined
    /\ issuanceA' = getIssuance(Num(stakeA))
    /\ issuanceB' = getIssuance(Num(stakeB))
    /\ lastEvent' = "getIssuance"
    /\ UNCHANGED <<stakeA, stakeB, widgetVars, topBarVars>>

NextIssuance == ApplyGetIssuance

SpecIssuance == InitIssuance /\ [][NextIssuance]_vars

applied == issuanceA # Undefined
\* floor(sqrt(.)) of the balance at stake, in Gwei, of a staked supply.
balanceRoot(stake) == FloorSqrt(stake * GweiPerUnit)

\* C2 as stated: for all staked supplies 0 < a < b, getIssuance(a) <=
\* getIssuance(b).
C2_Monotone == applied => issuanceA.v <= issuanceB.v

\* C2 amended: for staked supplies a < b, of at least one Gwei, whose
\* balances at stake have the same floor(sqrt(.)), or whose floor(sqrt(.))
\* differ by at least 3, getIssuance(a) <= getIssuance(b).
C2_MonotoneAwayFromSquares ==
    (/\ applied
     /\ \/ balanceRoot(stakeB) = balanceRoot(stakeA)
        \/ balanceRoot(stakeB) >= balanceRoot(stakeA) + 3) =>
        /\ ~issuanceA.nan /\ ~issuanceB.nan
        /\ issuanceA.v <= issuanceB.v

\* Two staked supplies with the same floor(sqrt(.)) and a larger issuance
\* for the larger one.
C2_Witness ==
    /\ applied
    /\ balanceRoot(stakeB) = balanceRoot(stakeA)
    /\ issuanceA.v < issuanceB.v

-----------------------------------------------------------------------------
(* TopBar *)

\* The second useLocalStorage call given the key of the first.
ethAlarmKeyOfGas == "gas-alarm-enabled"

gasAlarmKey == "gas-alarm-enabled"
ethAlarmKey == "eth-alarm-enabled"

\* useLocalStorage (its code is not among the sources): the value is kept
\* in the store as JSON text; the hook reads it at mount, giving the
\* initial value for a key never written, and writes it on every set.
stringify(value) == IF value THEN "true" ELSE "false"
parse(text) == text = "true"
readStored(storage, key, initialValue) ==
    IF storage[key] = "null" THEN initialValue ELSE parse(storage[key])
writeStored(storage, key, value) == [storage EXCEPT ![key] = stringify(value)]

\* A click listener: checkIfClickedOutside as a render created it, closed
\* over that render's showAlarmDialog.
listenerOf(show) == [showAlarmDialog |-> show]

\* The listener without the test of the trigger button.
checkIfClickedOutsideNoButtonTest(listener, target, show) ==
    IF ~listener.showAlarmDialog \/ target = "dialog" THEN show ELSE FALSE

\* The listener without the test of the dialog.
checkIfClickedOutsideNoDialogTest(listener, target, show) ==
    IF ~listener.showAlarmDialog \/ target = "button" THEN show ELSE FALSE

\* checkIfClickedOutside: the dialog state after the listener has handled a
\* click on `target`, `show` being the state before it.  The target is
\* "dialog" (inside the dialog), "button" (inside the trigger button) or
\* "outside"; a click has a target and both refs are set while mounted.
checkIfClickedOutside(listener, target, show) ==
    IF \/ ~listener.showAlarmDialog
       \/ target = "dialog"
       \/ target = "button"
    THEN show
    ELSE FALSE

\* document.addEventListener: a listener already registered is not added.
addEventListener(registered, listener) ==
    IF \E i \in 1..Len(registered) : registered[i] = listener
    THEN registered
    ELSE Append(registered, listener)

\* document.removeEventListener
removeEventListener(registered, listener) ==
    SelectSeq(registered, LAMBDA l : l # listener)

\* An effect whose cleanup is never run.
commitEffectNoCleanup(registered, previous, show) ==
    addEventListener(registered, listenerOf(show))

\* The useEffect without dependencies, after a render: the cleanup of the
\* render before it (of showAlarmDialog = previous), then the effect.
commitEffect(registered, previous, show) ==
    addEventListener(removeEventListener(registered, listenerOf(previous)),
                     listenerOf(show))

\* The document dispatches a click to its listeners, in their order.
RECURSIVE dispatchClick(_, _, _, _)
dispatchClick(registered, i, target, show) ==
    IF i > Len(registered) THEN show
    ELSE dispatchClick(registered, i + 1, target,
                       checkIfClickedOutside(registered[i], target, show))

InitTopBar ==
    /\ mounted = FALSE
    /\ showAlarmDialog = FALSE
    /\ gasAlarmActive = FALSE
    /\ ethAlarmActive = FALSE
    /\ localStorage = [key \in StorageKeys |-> "null"]
    /\ listeners = <<>>
    /\ groupedAnalysis1 = 0
    /\ lastEvent = "init"
    /\ noWidget /\ noIssuance

\* The page mounts a TopBar: the first render and its effect.
Mount ==
    /\ ~mounted
    /\ mounted' = TRUE
    /\ showAlarmDialog' = FALSE
    /\ gasAlarmActive' = readStored(localStorage, gasAlarmKey, FALSE)
    /\ ethAlarmActive' = readStored(localStorage, ethAlarmKey, FALSE)
    /\ listeners' = addEventListener(listeners, listenerOf(FALSE))
    /\ lastEvent' = "mount"
    /\ UNCHANGED <<localStorage, groupedAnalysis1, widgetVars, issuanceVars>>

\* The page is left or reloaded: the last effect's cleanup runs, the state
\* of the instance is gone, the store stays.
Unmount ==
    /\ mounted
    /\ mounted' = FALSE
    /\ listeners' = removeEventListener(listeners, listenerOf(showAlarmDialog))
    /\ showAlarmDialog' = FALSE
    /\ gasAlarmActive' = FALSE
    /\ ethAlarmActive' = FALSE
    /\ groupedAnalysis1' = 0
    /\ lastEvent' = "unmount"
    /\ UNCHANGED <<localStorage, widgetVars, issuanceVars>>

\* The parent passes a new groupedAnalysis1: a render and its effect.
RefreshData ==
    /\ mounted
    /\ \E version \in 1..MaxDataVersion :
        /\ version # groupedAnalysis1
        /\ groupedAnalysis1' = version
    /\ listeners' = commitEffect(listeners, showAlarmDialog, showAlarmDialog)
    /\ lastEvent' = "refresh"
    /\ UNCHANGED <<mounted, showAlarmDialog, gasAlarmActive, ethAlarmActive,
                   localStorage, widgetVars, issuanceVars>>

\* A click on the trigger button, which is visible once the alarm values are
\* there: handleClickAlarm, then the document's listeners.  Whether the
\* render handleClickAlarm causes, and its effect, run before the click
\* reaches the document is the framework's choice.
ClickAlarmButton ==
    /\ mounted
    /\ groupedAnalysis1 # 0
    /\ \E flushed \in BOOLEAN :
        LET handled == ~showAlarmDialog
            atDocument == IF flushed
                          THEN commitEffect(listeners, showAlarmDialog, handled)
                          ELSE listeners
            after == dispatchClick(atDocument, 1, "button", handled)
        IN  /\ showAlarmDialog' = after
            /\ listeners' = commitEffect(commitEffect(listeners, showAlarmDialog, handled),
                                         handled, after)
    /\ lastEvent' = "clickButton"
    /\ UNCHANGED <<mounted, gasAlarmActive, ethAlarmActive, localStorage,
                   groupedAnalysis1, widgetVars, issuanceVars>>

\* A click inside the open dialog (the closed dialog is invisible) that
\* toggles nothing.
ClickInsideDialog ==
    /\ mounted
    /\ showAlarmDialog
    /\ showAlarmDialog' = dispatchClick(listeners, 1, "dialog", showAlarmDialog)
    /\ listeners' = commitEffect(listeners, showAlarmDialog, showAlarmDialog')
    /\ lastEvent' = "clickInside"
    /\ UNCHANGED <<mounted, gasAlarmActive, ethAlarmActive, localStorage,
                   groupedAnalysis1, widgetVars, issuanceVars>>

\* A click on the gas alarm's toggle in the open dialog: AlarmInput calls
\* onToggleIsAlarmActive={setGasAlarmActive} with the value it chooses, then
\* the document's listeners run.
ToggleGasAlarm ==
    /\ mounted
    /\ showAlarmDialog
    /\ \E value \in BOOLEAN :
        /\ gasAlarmActive' = value
        /\ localStorage' = writeStored(localStorage, gasAlarmKey, value)
    /\ showAlarmDialog' = dispatchClick(listeners, 1, "dialog", showAlarmDialog)
    /\ listeners' = commitEffect(listeners, showAlarmDialog, showAlarmDialog')
    /\ lastEvent' = "toggleGas"
    /\ UNCHANGED <<mounted, ethAlarmActive, groupedAnalysis1, widgetVars, issuanceVars>>

\* A click on the ETH price alarm's toggle in the open dialog.
ToggleEthAlarm ==
    /\ mounted
    /\ showAlarmDialog
    /\ \E value \in BOOLEAN :
        /\ ethAlarmActive' = value
        /\ localStorage' = writeStored(localStorage, ethAlarmKey, value)
    /\ showAlarmDialog' = dispatchClick(listeners, 1, "dialog", showAlarmDialog)
    /\ listeners' = commitEffect(listeners, showAlarmDialog, showAlarmDialog')
    /\ lastEvent' = "toggleEth"
    /\ UNCHANGED <<mounted, gasAlarmActive, groupedAnalysis1, widgetVars, issuanceVars>>

\* A click elsewhere in the document.
ClickOutside ==
    /\ mounted
    /\ showAlarmDialog' = dispatchClick(listeners, 1, "outside", showAlarmDialog)
    /\ listeners' = commitEffect(listeners, showAlarmDialog, showAlarmDialog')
    /\ lastEvent' = "clickOutside"
    /\ UNCHANGED <<mounted, gasAlarmActive, ethAlarmActive, localStorage,
                   groupedAnalysis1, widgetVars, issuanceVars>>

NextTopBar ==
    \/ Mount
    \/ Unmount
    \/ RefreshData
    \/ ClickAlarmButton
    \/ ClickInsideDialog
    \/ ToggleGasAlarm
    \/ ToggleEthAlarm
    \/ ClickOutside

SpecTopBar == InitTopBar /\ [][NextTopBar]_vars

-----------------------------------------------------------------------------
(* Claims about the TopBar, checked under SpecTopBar *)

\* C3: the dialog starts closed; a click inside the open dialog leaves it
\* open; a click outside the dialog and the button closes it, and leaves a
\* closed dialog closed.
C3_InsideKeepsOutsideCloses ==
    [][/\ lastEvent' = "mount" => ~showAlarmDialog'
       /\ (lastEvent' = "clickInside" /\ showAlarmDialog) => showAlarmDialog'
       /\ lastEvent' = "clickOutside" => ~showAlarmDialog']_vars

\* The dialog was opened, clicked inside, and is open.
C3_Witness ==
    /\ mounted
    /\ showAlarmDialog
    /\ lastEvent = "clickInside"

\* C4: a click on the trigger button flips the dialog state, once; within
\* an instance's life the dialog state changes on no other event than a
\* trigger click or an outside click while open.
C4_TriggerToggles ==
    [][/\ lastEvent' = "clickButton" => showAlarmDialog' = ~showAlarmDialog
       /\ (mounted /\ mounted' /\ showAlarmDialog' # showAlarmDialog) =>
              \/ lastEvent' = "clickButton"
              \/ lastEvent' = "clickOutside" /\ showAlarmDialog]_vars

\* A trigger click has just closed the open dialog, a preference being set.
C4_Witness ==
    /\ mounted
    /\ ~showAlarmDialog
    /\ lastEvent = "clickButton"
    /\ gasAlarmActive

storedOrFalse(key) ==
    IF localStorage[key] = "null" THEN FALSE ELSE localStorage[key] = "true"

\* C5: each alarm preference is read at mount from its own key, false when
\* the key was never written; a toggle writes the new value under the
\* alarm's own key and leaves the other key's value; no other event writes
\* the store, so a fresh mount reads the last value written.
C5_PreferencesRoundTrip ==
    [][/\ lastEvent' = "mount" =>
              /\ gasAlarmActive' = storedOrFalse("gas-alarm-enabled")
              /\ ethAlarmActive' = storedOrFalse("eth-alarm-enabled")
       /\ lastEvent' = "toggleGas" =>
              /\ localStorage'["gas-alarm-enabled"] =
                     (IF gasAlarmActive' THEN "true" ELSE "false")
              /\ localStorage'["eth-alarm-enabled"] = localStorage["eth-alarm-enabled"]
       /\ lastEvent' = "toggleEth" =>
              /\ localStorage'["eth-alarm-enabled"] =
                     (IF ethAlarmActive' THEN "true" ELSE "false")
              /\ localStorage'["gas-alarm-enabled"] = localStorage["gas-alarm-enabled"]
       /\ lastEvent' = "toggleGas" => ethAlarmActive' = ethAlarmActive
       /\ lastEvent' = "toggleEth" => gasAlarmActive' = gasAlarmActive
       /\ lastEvent' \notin {"toggleGas", "toggleEth"} => localStorage' = localStorage
       /\ mounted' =>
              /\ gasAlarmActive' = (localStorage'["gas-alarm-enabled"] = "true")
              /\ ethAlarmActive' = (localStorage'["eth-alarm-enabled"] = "true")]_vars

\* A fresh mount has read a gas alarm that is on and an ETH price alarm
\* that was switched on and off again.
C5_Witness ==
    /\ mounted
    /\ lastEvent = "mount"
    /\ gasAlarmActive
    /\ ~ethAlarmActive
    /\ localStorage["eth-alarm-enabled"] = "false"

\* C10: a mounted TopBar has exactly one click listener registered, the one
\* closed over the current dialog state; after unmount none is registered.
C10_OneCurrentListener ==
    /\ mounted => listeners = <<[showAlarmDialog |-> showAlarmDialog]>>
    /\ ~mounted => listeners = <<>>

\* The dialog is open after a render that changed no dialog state.
C10_Witness ==
    /\ mounted
    /\ showAlarmDialog
    /\ lastEvent = "refresh"
    /\ Len(listeners) = 1

====
